---- MODULE Spec2Model ----
(***************************************************************************)
(* pydata_sphinx_theme/__init__.py: the two host callbacks that carry the  *)
(* theme's logic.  update_config runs on `builder-inited` and normalises   *)
(* the theme options; update_and_remove_templates runs on                  *)
(* `html-page-context` and normalises the page's render context.           *)
(***************************************************************************)
EXTENDS Integers, Sequences, FiniteSets, TLC

VARIABLES hook, pc, conf, app, io, page, out

vars == <<hook, pc, conf, app, io, page, out>>

(***************************************************************************)
(* Python values.  Every value carries its type tag in `t`, so that        *)
(* isinstance() and truthiness are decided the way Python decides them.    *)
(***************************************************************************)
None_ == [t |-> "none"]
Bool(b) == [t |-> "bool", v |-> b]
Str(s) == [t |-> "str", v |-> s]
List(s) == [t |-> "list", v |-> s]
Dict(f) == [t |-> "dict", v |-> f]
EmptyMap == [k \in {} |-> None_]

Truthy(x) ==
    CASE x.t = "none" -> FALSE
      [] x.t = "bool" -> x.v
      [] x.t = "str" -> Len(x.v) > 0
      [] x.t = "list" -> Len(x.v) > 0
      [] x.t = "dict" -> DOMAIN x.v # {}

\* dict.get(k, default) and d[k] = v
Get(d, k, default) == IF k \in DOMAIN d THEN d[k] ELSE default
Put(d, k, v) == [x \in DOMAIN d \cup {k} |-> IF x = k THEN v ELSE d[x]]

\* urlparse(json_url).scheme for the manifest locations of the model
Scheme(url) ==
    CASE url = "https://docs.example/switcher.json" -> "https"
      [] url = "http://docs.example/switcher.json" -> "http"
      [] OTHER -> ""

(***************************************************************************)
(* Bounds of the model.                                                    *)
(***************************************************************************)
MaxKeys == 3
MaxRecords == 2

(***************************************************************************)
(* The run of update_config: the options as mutated so far and the         *)
(* effects visible to the host, in order.                                  *)
(***************************************************************************)
Start(theme_options, config) ==
    [opts |-> theme_options, config |-> config, warnings |-> <<>>,
     reads |-> <<>>, js_files |-> <<>>, writes |-> <<>>,
     err |-> "none", errarg |-> ""]

Warn(st, kind) == [st EXCEPT !.warnings = Append(@, kind)]
Write(st, k, v) == [st EXCEPT !.opts = Put(@, k, v), !.writes = Append(@, k)]
Raise(st, exc, arg) == [st EXCEPT !.err = exc, !.errarg = arg]
Running(st) == st.err = "none"

\* lines 30-37
DeprecateLogoText(st) ==
    IF ~Running(st) \/ ~Truthy(Get(st.opts, "logo_text", None_)) THEN st
    ELSE LET logo == Get(st.opts, "logo", Dict(EmptyMap)) IN
         IF logo.t # "dict" THEN Raise(st, "TypeError", logo.t)
         ELSE Warn(Write(st, "logo", Dict(Put(logo.v, "text", st.opts["logo_text"]))),
                   "logo_text")

\* lines 39-44
DeprecateFooterItems(st) ==
    IF ~Running(st) \/ ~Truthy(Get(st.opts, "footer_items", None_)) THEN st
    ELSE Warn(Write(st, "footer_start", st.opts["footer_items"]), "footer_items")

\* lines 46-51
DeprecateFavicons(st) ==
    IF ~Running(st) \/ ~Truthy(Get(st.opts, "favicons", None_)) THEN st
    ELSE Warn(st, "favicons")

\* lines 53-63
NavigationWithKeys(st) ==
    IF ~Running(st) \/ Get(st.opts, "navigation_with_keys", None_).t # "none" THEN st
    ELSE Write(Warn(st, "navigation_with_keys"), "navigation_with_keys", Bool(FALSE))

\* ValidateIconLinks with a message that does not name the type
ValidateIconLinks_Untyped(st) ==
    IF ~Running(st) \/ Get(st.opts, "icon_links", List(<<>>)).t = "list" THEN st
    ELSE Raise(st, "ExtensionError", "")

\* lines 65-70
ValidateIconLinks(st) ==
    IF ~Running(st) \/ Get(st.opts, "icon_links", List(<<>>)).t = "list" THEN st
    ELSE Raise(st, "ExtensionError", Get(st.opts, "icon_links", None_).t)

\* lines 72-74
PermalinksIcon(st) ==
    IF ~Running(st) \/ "html_permalinks_icon" \in DOMAIN st.config THEN st
    ELSE [st EXCEPT !.config = Put(@, "html_permalinks_icon", Str("#"))]

(***************************************************************************)
(* The version-switcher manifest.  What requests.get / Path.read_text      *)
(* answer is the environment's choice: an exception, or (for a URL) a      *)
(* response with a status and a body, or (for a path) the file's text.     *)
(* A body is either not JSON at all or a JSON array of objects, each       *)
(* object given by the set of its keys.                                    *)
(***************************************************************************)
RecordShapes == {{"name", "url", "version"}, {"name", "url"}, {"name", "version"}}

RECURSIVE SeqsUpTo(_, _)
SeqsUpTo(S, n) ==
    IF n = 0 THEN {<<>>}
    ELSE LET shorter == SeqsUpTo(S, n - 1) IN
         shorter \cup {Append(s, x) : s \in {q \in shorter : Len(q) = n - 1}, x \in S}

Contents ==
    {[json |-> FALSE, records |-> <<>>]}
        \cup {[json |-> TRUE, records |-> r] : r \in SeqsUpTo(RecordShapes, MaxRecords)}

NetErrors == {"ConnectionError", "RetryError", "TooManyRedirects"}
FsErrors == {"FileNotFoundError", "IsADirectoryError", "PermissionError"}

NoRead == [src |-> "none", exc |-> "", status |-> 0, content |-> [json |-> FALSE, records |-> <<>>]]
NetOutcomes ==
    {[src |-> "net", exc |-> e, status |-> 0, content |-> [json |-> FALSE, records |-> <<>>]] :
        e \in NetErrors}
    \cup {[src |-> "net", exc |-> "", status |-> 404, content |-> [json |-> FALSE, records |-> <<>>]]}
    \cup {[src |-> "net", exc |-> "", status |-> 200, content |-> c] : c \in Contents}
FsOutcomes ==
    {[src |-> "fs", exc |-> e, status |-> 0, content |-> [json |-> FALSE, records |-> <<>>]] :
        e \in FsErrors}
    \cup {[src |-> "fs", exc |-> "", status |-> 0, content |-> c] : c \in Contents}

\* line 95 and line 100: the exceptions the two try blocks catch
CaughtNetErrors == {"ConnectionError", "HTTPError", "RetryError"}
CaughtFsErrors == {"FileNotFoundError"}

\* lines 90-101: the exception the read ends with ("" when it returns text)
ReadException(json_url, o) ==
    IF Scheme(json_url) \in {"http", "https"}
    THEN IF o.exc # "" THEN o.exc                       \* requests.get raises
         ELSE IF o.status >= 400 THEN "HTTPError"       \* raise_for_status
         ELSE ""
    ELSE o.exc                                          \* read_text raises

ReadIsCaught(json_url, exc) ==
    IF Scheme(json_url) \in {"http", "https"}
    THEN exc \in CaughtNetErrors
    ELSE exc \in CaughtFsErrors

\* MalformedManifest looking at `url` only
MalformedManifest_UrlOnly(records) ==
    \E i \in 1..Len(records) : "url" \notin records[i]

\* lines 112-114
MalformedManifest(records) ==
    LET missing_url == \E i \in 1..Len(records) : "url" \notin records[i]
        missing_version == \E i \in 1..Len(records) : "version" \notin records[i]
    IN  missing_url \/ missing_version

\* line 77-79: is the manifest check entered at all
ChecksSwitcher(opts) ==
    /\ Get(opts, "switcher", None_).t = "dict"
    /\ Truthy(Get(opts, "check_switcher", Bool(TRUE)))

\* RequiredSwitcherKeys without line 84
RequiredSwitcherKeys_UrlOnly == <<"json_url">>

\* lines 82-84: the sub-keys the check subscripts, in the order it does
RequiredSwitcherKeys == <<"json_url", "version_match">>

\* the first required sub-key the dict lacks, "" when it has them all
MissingSwitcherKey(theme_switcher) ==
    IF \E i \in 1..Len(RequiredSwitcherKeys) : RequiredSwitcherKeys[i] \notin DOMAIN theme_switcher
    THEN RequiredSwitcherKeys[CHOOSE i \in 1..Len(RequiredSwitcherKeys) :
             /\ RequiredSwitcherKeys[i] \notin DOMAIN theme_switcher
             /\ \A j \in 1..(i - 1) : RequiredSwitcherKeys[j] \in DOMAIN theme_switcher]
    ELSE ""

\* lines 76-118
CheckSwitcher(st, o) ==
    IF ~Running(st) \/ ~ChecksSwitcher(st.opts) THEN st
    ELSE LET theme_switcher == st.opts["switcher"].v IN
         IF MissingSwitcherKey(theme_switcher) # ""
         THEN Raise(st, "KeyError", MissingSwitcherKey(theme_switcher))
         ELSE LET json_url == theme_switcher["json_url"].v
                  exc == ReadException(json_url, o)
                  rd == [st EXCEPT !.reads = Append(@, json_url)]
              IN  IF exc # ""
                  THEN IF ReadIsCaught(json_url, exc)
                       THEN Warn(rd, "switcher_unreadable")
                       ELSE Raise(rd, exc, json_url)
                  ELSE IF ~o.content.json THEN Raise(rd, "JSONDecodeError", json_url)
                  ELSE IF MalformedManifest(o.content.records)
                       THEN Warn(rd, "switcher_malformed")
                       ELSE rd

\* the answers the environment can give to the read st is about to make
OutcomesFor(st) ==
    IF ~Running(st) \/ ~ChecksSwitcher(st.opts) THEN {NoRead}
    ELSE LET theme_switcher == st.opts["switcher"].v IN
         IF MissingSwitcherKey(theme_switcher) = ""
         THEN IF Scheme(theme_switcher["json_url"].v) \in {"http", "https"}
              THEN NetOutcomes ELSE FsOutcomes
         ELSE {NoRead}

\* lines 120-149
Analytics(st) ==
    LET analytics == Get(st.opts, "analytics", Dict(EmptyMap)) IN
    IF ~Running(st) \/ ~Truthy(analytics) THEN st
    ELSE IF analytics.t # "dict" THEN Raise(st, "AttributeError", analytics.t)
    ELSE LET plausible_domain == Get(analytics.v, "plausible_analytics_domain", None_)
             plausible_url == Get(analytics.v, "plausible_analytics_url", None_)
             gid == Get(analytics.v, "google_analytics_id", None_)
             js1 == IF Truthy(plausible_domain) /\ Truthy(plausible_url)
                    THEN <<[filename |-> plausible_url.v, loading_method |-> "defer",
                            arg |-> plausible_domain.v]>>
                    ELSE <<>>
             js2 == IF Truthy(gid)
                    THEN <<[filename |-> "https://www.googletagmanager.com/gtag/js",
                            loading_method |-> "async", arg |-> gid.v],
                           [filename |-> "", loading_method |-> "body", arg |-> gid.v]>>
                    ELSE <<>>
         IN  [st EXCEPT !.js_files = @ \o js1 \o js2]

\* lines 151-154
Ablog(st) ==
    LET fa_provided == "fontawesome_included" \in DOMAIN st.config
        extensions == Get(st.config, "extensions", List(<<>>)).v
    IN  IF Running(st) /\ (\E i \in 1..Len(extensions) : extensions[i] = "ablog") /\ ~fa_provided
        THEN [st EXCEPT !.config = Put(@, "fontawesome_included", Bool(TRUE))]
        ELSE st

\* shortcuts listed in the order the links are meant to show
shortcuts_DisplayOrder ==
    << [opt |-> "github_url", icon |-> "fa-brands fa-square-github", name |-> "GitHub"],
       [opt |-> "gitlab_url", icon |-> "fa-brands fa-square-gitlab", name |-> "GitLab"],
       [opt |-> "bitbucket_url", icon |-> "fa-brands fa-bitbucket", name |-> "Bitbucket"],
       [opt |-> "twitter_url", icon |-> "fa-brands fa-square-twitter", name |-> "Twitter"] >>

\* lines 157-162
shortcuts ==
    << [opt |-> "twitter_url", icon |-> "fa-brands fa-square-twitter", name |-> "Twitter"],
       [opt |-> "bitbucket_url", icon |-> "fa-brands fa-bitbucket", name |-> "Bitbucket"],
       [opt |-> "gitlab_url", icon |-> "fa-brands fa-square-gitlab", name |-> "GitLab"],
       [opt |-> "github_url", icon |-> "fa-brands fa-square-github", name |-> "GitHub"] >>

\* lines 166-177: the loop from its i-th shortcut on
RECURSIVE InsertShortcuts(_, _, _)
InsertShortcuts(opts, icon_links, i) ==
    IF i > Len(shortcuts) THEN icon_links
    ELSE LET s == shortcuts[i]
             entry == [url |-> Get(opts, s.opt, None_), icon |-> s.icon,
                       name |-> s.name, type |-> "fontawesome"]
         IN  InsertShortcuts(opts,
                 IF Truthy(Get(opts, s.opt, None_)) THEN <<entry>> \o icon_links
                 ELSE icon_links,
                 i + 1)

\* lines 156-178
IconLinkShortcuts(st) ==
    IF ~Running(st) THEN st
    ELSE LET icon_links == Get(st.opts, "icon_links", List(<<>>)).v IN
         Write(st, "icon_links", List(InsertShortcuts(st.opts, icon_links, 1)))

\* PrepareLogo without the isinstance check of line 185
PrepareLogo_Unchecked(st) ==
    IF ~Running(st) THEN st
    ELSE LET got == Get(st.opts, "logo", None_)
             theme_logo == IF ~Truthy(got) THEN Dict(EmptyMap) ELSE got
         IN  Write(st, "logo", theme_logo)

\* lines 180-187
PrepareLogo(st) ==
    IF ~Running(st) THEN st
    ELSE LET got == Get(st.opts, "logo", None_)
             theme_logo == IF ~Truthy(got) THEN Dict(EmptyMap) ELSE got
         IN  IF theme_logo.t # "dict" THEN Raise(st, "ValueError", theme_logo.t)
             ELSE Write(st, "logo", theme_logo)

\* lines 28-74: everything before the manifest check
BeforeSwitcher(st) ==
    PermalinksIcon(ValidateIconLinks(NavigationWithKeys(
        DeprecateFavicons(DeprecateFooterItems(DeprecateLogoText(st))))))

\* lines 120-187: everything after the manifest check
AfterSwitcher(st) == PrepareLogo(IconLinkShortcuts(Ablog(Analytics(st))))

(***************************************************************************)
(* conf.py as the user wrote it: theme options and the Sphinx config       *)
(* values update_config looks at.                                          *)
(***************************************************************************)
ConfigKeys == {"html_permalinks_icon", "fontawesome_included", "extensions"}
ThemeKeys ==
    {"logo_text", "logo", "footer_items", "footer_start", "favicons",
     "navigation_with_keys", "icon_links", "switcher", "check_switcher", "analytics",
     "twitter_url", "bitbucket_url", "gitlab_url", "github_url"}

ShortcutKeys == {"twitter_url", "bitbucket_url", "gitlab_url", "github_url"}

UserLink1 == [url |-> Str("https://pypi.org/project/x"), icon |-> "fa-custom fa-pypi",
              name |-> "PyPI", type |-> "fontawesome"]
UserLink2 == [url |-> Str("https://x.example"), icon |-> "_static/x.png",
              name |-> "X", type |-> "local"]

SwitcherDict(keys, url) ==
    Dict([k \in keys |-> IF k = "json_url" THEN Str(url) ELSE Str("dev")])

ValuesOf(k) ==
    CASE k = "logo_text" -> {Str(""), Str("Docs")}
      [] k = "logo" ->
            {Str(""), Str("logo.png"), Dict(EmptyMap),
             Dict([x \in {"image_light"} |-> Str("logo.png")])}
      [] k = "footer_items" -> {List(<<>>), List(<<"copyright">>)}
      [] k = "footer_start" -> {List(<<"sphinx-version">>)}
      [] k = "favicons" -> {List(<<"favicon.ico">>)}
      [] k = "navigation_with_keys" -> {None_, Bool(TRUE), Bool(FALSE)}
      [] k = "icon_links" ->
            {List(<<>>), List(<<UserLink1, UserLink2>>), Str("https://x.example")}
      [] k = "switcher" ->
            {SwitcherDict({"json_url", "version_match"}, "https://docs.example/switcher.json"),
             SwitcherDict({"json_url", "version_match"}, "_static/switcher.json"),
             SwitcherDict({"json_url"}, "_static/switcher.json"),
             SwitcherDict({"version_match"}, "")}
      [] k = "check_switcher" -> {Bool(FALSE)}
      [] k = "analytics" ->
            {Dict([x \in {"google_analytics_id"} |-> Str("G-1")]),
             Dict([x \in {"plausible_analytics_domain", "plausible_analytics_url"} |->
                       Str("plausible.example")])}
      [] k \in ShortcutKeys ->
            {Str(""), Str(k)}
      [] k = "extensions" -> {List(<<"ablog">>)}
      [] k = "html_permalinks_icon" -> {Str("P")}
      [] k = "fontawesome_included" -> {Bool(FALSE)}

\* every mapping of at most n of the keys to one of the key's values
RECURSIVE DictsOver(_, _)
DictsOver(keys, n) ==
    IF keys = {} \/ n = 0 THEN {EmptyMap}
    ELSE LET k == CHOOSE x \in keys : TRUE IN
         DictsOver(keys \ {k}, n)
             \cup {Put(d, k, v) : d \in DictsOver(keys \ {k}, n - 1), v \in ValuesOf(k)}

Restrict(d, S) == [k \in DOMAIN d \cap S |-> d[k]]
theme_options == Restrict(conf, ThemeKeys)

IdleApp == Start(EmptyMap, EmptyMap)

InitConfig ==
    /\ hook = "builder-inited"
    /\ pc = "pending"
    /\ conf \in DictsOver(ThemeKeys \cup ConfigKeys, MaxKeys)
                \cup DictsOver(ShortcutKeys \cup {"icon_links"}, Cardinality(ShortcutKeys) + 1)
    /\ app = Start(Restrict(conf, ThemeKeys), Restrict(conf, ConfigKeys))
    /\ io = NoRead
    /\ page = EmptyMap
    /\ out = EmptyMap

\* lines 22-187
UpdateConfig ==
    /\ hook = "builder-inited"
    /\ pc = "pending"
    /\ LET pre == BeforeSwitcher(app) IN
       \E o \in OutcomesFor(pre) :
          LET fin == AfterSwitcher(CheckSwitcher(pre, o)) IN
          /\ app' = fin
          /\ io' = o
          /\ pc' = IF fin.err = "none" THEN "returned" ELSE "raised"
    /\ UNCHANGED <<hook, conf, page, out>>

Init == InitConfig
Next == UpdateConfig
Spec == Init /\ [][Next]_vars

(***************************************************************************)
(* Text of the page context.  A template name, a comma-separated section   *)
(* and a rendered template are sequences of characters, and the string     *)
(* methods the handler calls are computed on them as Python computes them. *)
(***************************************************************************)
IsSpace(c) == c \in {" ", "\t", "\n"}

\* str.strip()
RECURSIVE LStrip(_)
LStrip(s) == IF Len(s) > 0 /\ IsSpace(Head(s)) THEN LStrip(Tail(s)) ELSE s
RECURSIVE RStrip(_)
RStrip(s) == IF Len(s) > 0 /\ IsSpace(s[Len(s)]) THEN RStrip(SubSeq(s, 1, Len(s) - 1)) ELSE s
Strip(s) == RStrip(LStrip(s))

\* str.split(sep)
RECURSIVE Split(_, _)
Split(s, sep) ==
    IF \E i \in 1..Len(s) : s[i] = sep
    THEN LET i == CHOOSE i \in 1..Len(s) : s[i] = sep /\ \A j \in 1..(i - 1) : s[j] # sep IN
         <<SubSeq(s, 1, i - 1)>> \o Split(SubSeq(s, i + 1, Len(s)), sep)
    ELSE <<s>>

\* str.rfind(c), 1-based, 0 when c does not occur
RFind(s, c) ==
    IF \E i \in 1..Len(s) : s[i] = c
    THEN CHOOSE i \in 1..Len(s) : s[i] = c /\ \A j \in (i + 1)..Len(s) : s[j] # c
    ELSE 0

\* os.path.splitext(p)[1] (posixpath: sep "/", extsep ".")
splitext_ext(p) ==
    LET sepIndex == RFind(p, "/")
        dotIndex == RFind(p, ".")
    IN  IF dotIndex > sepIndex /\ \E j \in (sepIndex + 1)..(dotIndex - 1) : p[j] # "."
        THEN SubSeq(p, dotIndex, Len(p))
        ELSE <<>>

\* str.endswith(suffix)
EndsWith(s, suffix) ==
    /\ Len(s) >= Len(suffix)
    /\ SubSeq(s, Len(s) - Len(suffix) + 1, Len(s)) = suffix

\* str.strip(".")
RECURSIVE StripDots(_)
StripDots(s) ==
    IF Len(s) > 0 /\ Head(s) = "." THEN StripDots(Tail(s))
    ELSE IF Len(s) > 0 /\ s[Len(s)] = "." THEN StripDots(SubSeq(s, 1, Len(s) - 1))
    ELSE s

\* pathlib.PurePosixPath(href).suffix: the path's parts are what lies between
\* its slashes, less the empty parts and the "." parts; the name is the last
IsPathPart(part) == part # <<>> /\ part # <<".">>
PathSuffix(href) ==
    LET parts == SelectSeq(Split(href, "/"), IsPathPart)
        name == IF parts = <<>> THEN <<>> ELSE parts[Len(parts)]
        i == RFind(name, ".")
    IN  IF 1 < i /\ i < Len(name) THEN SubSeq(name, i, Len(name)) ELSE <<>>

HTML_SUFFIX == <<".", "h", "t", "m", "l">>
\* line 228
SKIP_EMPTY_TEMPLATE_CHECKS == <<<<"s", "i", "d", "e", "b", "a", "r", "-", "n", "a", "v", "-", "b", "s", ".", "h", "t", "m", "l">>, <<"n", "a", "v", "b", "a", "r", "-", "n", "a", "v", ".", "h", "t", "m", "l">>>>
\* line 242
theme_css_name == "_static/styles/pydata-sphinx-theme.css"
\* line 17
version == "0.14.2dev0"

\* lines 195-210
template_sections ==
    <<"theme_navbar_start", "theme_navbar_center", "theme_navbar_persistent",
      "theme_navbar_end", "theme_article_header_start", "theme_article_header_end",
      "theme_article_footer_items", "theme_content_footer_items", "theme_footer_start",
      "theme_footer_center", "theme_footer_end", "theme_secondary_sidebar_items",
      "theme_primary_sidebar_end", "sidebars">>

\* lines 214-217
SplitSection(value) ==
    IF value.t = "str"
    THEN LET parts == Split(value.v, ",") IN [i \in 1..Len(parts) |-> Strip(parts[i])]
    ELSE value.v

\* AddSuffix that looks for the `.html` ending instead of any extension
AddSuffix_HtmlOnly(template) ==
    IF ~EndsWith(template, HTML_SUFFIX) THEN template \o HTML_SUFFIX ELSE template

\* lines 220-222
AddSuffix(template) ==
    IF splitext_ext(template) = <<>> THEN template \o HTML_SUFFIX ELSE template

\* lines 214-222: the section's list when the empty-template filter starts
NormalizeSection(value) ==
    LET names == SplitSection(value) IN [i \in 1..Len(names) |-> AddSuffix(names[i])]

\* line 229
SkipsEmptyCheck(tname) ==
    \E i \in 1..Len(SKIP_EMPTY_TEMPLATE_CHECKS) : EndsWith(tname, SKIP_EMPTY_TEMPLATE_CHECKS[i])

\* _remove_empty_templates without the strip() of line 232
_remove_empty_templates_Unstripped(tname, render) ==
    IF ~SkipsEmptyCheck(tname)
    THEN Len(render[tname]) # 0
    ELSE TRUE

\* lines 225-234, with `render` the builder's answer for each template it is asked for
_remove_empty_templates(tname, render) ==
    IF ~SkipsEmptyCheck(tname)
    THEN Len(Strip(render[tname])) # 0
    ELSE TRUE

\* filter(f, xs) for a sequence
RECURSIVE Filter(_, _)
Filter(xs, render) ==
    IF xs = <<>> THEN <<>>
    ELSE (IF _remove_empty_templates(Head(xs), render) THEN <<Head(xs)>> ELSE <<>>)
             \o Filter(Tail(xs), render)

\* the templates line 231 renders while filtering xs, in call order
RECURSIVE RenderCalls(_)
RenderCalls(xs) ==
    IF xs = <<>> THEN <<>>
    ELSE (IF ~SkipsEmptyCheck(Head(xs)) THEN <<Head(xs)>> ELSE <<>>) \o RenderCalls(Tail(xs))

\* RemoveFirst dropping the last occurrence
RemoveFirst_Last(xs, x) ==
    LET i == CHOOSE i \in 1..Len(xs) : xs[i] = x /\ \A j \in (i + 1)..Len(xs) : xs[j] # x IN
    SubSeq(xs, 1, i - 1) \o SubSeq(xs, i + 1, Len(xs))

\* list.remove(x): drops the first occurrence
RemoveFirst(xs, x) ==
    LET i == CHOOSE i \in 1..Len(xs) : xs[i] = x /\ \A j \in 1..(i - 1) : xs[j] # x IN
    SubSeq(xs, 1, i - 1) \o SubSeq(xs, i + 1, Len(xs))

(***************************************************************************)
(* The run of update_and_remove_templates on one page.                     *)
(***************************************************************************)
StartPage(context) ==
    [context |-> context, normalized |-> EmptyMap, rendered |-> <<>>,
     css_added |-> <<>>, js_files |-> <<>>, err |-> "none", errarg |-> ""]

\* lines 212-236 for one section
UpdateSection(ps, section, render) ==
    LET value == Get(ps.context, section, None_) IN
    IF ~Truthy(value) THEN ps
    ELSE LET names == NormalizeSection(value) IN
         [ps EXCEPT !.context = Put(@, section, List(Filter(names, render))),
                    !.normalized = Put(@, section, names),
                    !.rendered = @ \o RenderCalls(names)]

\* lines 211-236: the loop from its i-th section on
RECURSIVE UpdateSections(_, _, _)
UpdateSections(ps, i, render) ==
    IF i > Len(template_sections) THEN ps
    ELSE UpdateSections(UpdateSection(ps, template_sections[i], render), i + 1, render)

\* lines 238-244
RemoveThemeCss(ps) ==
    IF "css_files" \notin DOMAIN ps.context THEN ps
    ELSE LET css_files == ps.context["css_files"].v IN
         IF \E i \in 1..Len(css_files) : css_files[i] = theme_css_name
         THEN [ps EXCEPT !.context = Put(@, "css_files", List(RemoveFirst(css_files, theme_css_name)))]
         ELSE ps

\* lines 248-257 for one favicon
FaviconLink(favicon) ==
    LET icon_type == StripDots(PathSuffix(favicon["href"]))
        opts == [rel |-> Get(favicon, "rel", "icon"), sizes |-> Get(favicon, "sizes", "16x16"),
                 type |-> <<"i", "m", "a", "g", "e", "/">> \o icon_type]
    IN  [href |-> favicon["href"],
         opts |-> IF "color" \in DOMAIN favicon
                  THEN [k \in {"rel", "sizes", "type", "color"} |->
                           IF k = "color" THEN favicon["color"] ELSE opts[k]]
                  ELSE opts]

\* lines 246-257: the loop from its i-th favicon on
RECURSIVE AddFavicons(_, _, _)
AddFavicons(ps, favicons, i) ==
    IF ps.err # "none" \/ i > Len(favicons) THEN ps
    ELSE IF "href" \notin DOMAIN favicons[i] THEN [ps EXCEPT !.err = "KeyError", !.errarg = "href"]
    ELSE AddFavicons([ps EXCEPT !.css_added = Append(@, FaviconLink(favicons[i]))], favicons, i + 1)

\* lines 259-274
AddDocumentationOptions(ps, pagename) ==
    IF ps.err # "none" THEN ps
    ELSE LET js == [ps EXCEPT !.js_files = Append(@, [body |-> "pagename", arg |-> <<pagename>>])]
             theme_switcher == Get(ps.context, "theme_switcher", None_)
         IN  IF theme_switcher.t # "dict" THEN js
             ELSE IF "json_url" \notin DOMAIN theme_switcher.v
                  THEN [js EXCEPT !.err = "KeyError", !.errarg = "json_url"]
             ELSE IF "version_match" \notin DOMAIN theme_switcher.v
                  THEN [js EXCEPT !.err = "KeyError", !.errarg = "version_match"]
             ELSE IF "theme_show_version_warning_banner" \notin DOMAIN ps.context
                  THEN [js EXCEPT !.err = "KeyError", !.errarg = "theme_show_version_warning_banner"]
             ELSE [js EXCEPT !.js_files =
                      Append(@, [body |-> "switcher",
                                 arg |-> <<version, theme_switcher.v["json_url"].v,
                                           theme_switcher.v["version_match"].v,
                                           IF ps.context["theme_show_version_warning_banner"].v
                                           THEN "true" ELSE "false">>])]

\* lines 276-277
SetThemeVersion(ps) ==
    IF ps.err # "none" THEN ps
    ELSE [ps EXCEPT !.context = Put(@, "theme_version", Str(version))]

\* lines 190-277
RunPage(context, pagename, render) ==
    SetThemeVersion(AddDocumentationOptions(
        AddFavicons(RemoveThemeCss(UpdateSections(StartPage(context), 1, render)),
                    Get(context, "theme_favicons", List(<<>>)).v, 1),
        pagename))

\* the templates the handler will ask the builder to render for this context
RECURSIVE Range(_)
Range(xs) == IF xs = <<>> THEN {} ELSE {Head(xs)} \cup Range(Tail(xs))

TemplatesToRender(context) ==
    UNION {IF Truthy(Get(context, template_sections[i], None_))
           THEN Range(RenderCalls(NormalizeSection(context[template_sections[i]])))
           ELSE {} : i \in 1..Len(template_sections)}

(***************************************************************************)
(* Page contexts the host hands over.                                      *)
(***************************************************************************)
MaxFrags == 5
MaxList == 2
MaxCss == 3
MaxCtxKeys == 3

Fragments == {<<"a">>, <<".">>, <<",">>, <<" ">>, <<"n", "a", "v", "b", "a", "r", "-", "n", "a", "v">>}

\* every concatenation of at most n fragments
RECURSIVE Texts(_)
Texts(n) ==
    IF n = 0 THEN {<<>>}
    ELSE LET shorter == Texts(n - 1) IN shorter \cup {s \o f : s \in shorter, f \in Fragments}

TemplateNames == {<<"a">>, <<"a", ".", "b">>, <<"d", ".", "d", "/", "f">>, <<".", "a">>,
                  <<"n", "a", "v", "b", "a", "r", "-", "n", "a", "v", ".", "h", "t", "m", "l">>, <<"x">> \o <<"s", "i", "d", "e", "b", "a", "r", "-", "n", "a", "v", "-", "b", "s", ".", "h", "t", "m", "l">>}

\* what the builder can answer for a template: nothing, blanks only, or markup
RenderOutputs == {<<>>, <<" ", "\n">>, <<" ", "<", "p", ">">>}

\* the first section gets every text of the bound, the others the shorter ones
SectionValues(k) ==
    {Str(s) : s \in Texts(IF k = template_sections[1] THEN MaxFrags ELSE MaxFrags - 2)}
        \cup {List(l) : l \in SeqsUpTo(TemplateNames, MaxList)}

Favicon == [k \in {"href", "sizes"} |->
               IF k = "href" THEN <<"f", "a", "v", ".", "i", "c", "o">> ELSE "32x32"]

PageValuesOf(k) ==
    CASE k = "css_files" ->
            {List(l) : l \in SeqsUpTo({theme_css_name, "_static/custom.css"}, MaxCss)}
      [] k = "theme_favicons" ->
            {List(<<Favicon>>), List(<<[x \in {"rel"} |-> "icon"]>>)}
      [] k = "theme_switcher" ->
            {SwitcherDict({"json_url", "version_match"}, "_static/switcher.json"),
             SwitcherDict({"json_url"}, "_static/switcher.json")}
      [] k = "theme_show_version_warning_banner" -> {Bool(TRUE)}
      [] k = "theme_logo_link" -> {Str(<<"a", ",", "b">>)}
      [] OTHER -> {List(<<<<"a">>, <<"n", "a", "v", "b", "a", "r", "-", "n", "a", "v", ".", "h", "t", "m", "l">>>>), Str(<<" ">>)}

\* every mapping of at most n of the keys to one of the key's values
RECURSIVE ContextsOver(_, _)
ContextsOver(keys, n) ==
    IF keys = {} \/ n = 0 THEN {EmptyMap}
    ELSE LET k == CHOOSE x \in keys : TRUE IN
         ContextsOver(keys \ {k}, n)
             \cup {Put(d, k, v) : d \in ContextsOver(keys \ {k}, n - 1), v \in PageValuesOf(k)}

SectionKeys == {template_sections[i] : i \in 1..Len(template_sections)}

PageContexts ==
    UNION {{Put(EmptyMap, k, v) : v \in SectionValues(k)} : k \in SectionKeys}
        \cup ContextsOver({"css_files", "theme_favicons", "theme_switcher",
                           "theme_show_version_warning_banner", "theme_logo_link",
                           "theme_navbar_end", "sidebars"}, MaxCtxKeys)

InitPage ==
    /\ hook = "html-page-context"
    /\ pc = "pending"
    /\ conf = EmptyMap
    /\ app = IdleApp
    /\ io = NoRead
    /\ page \in PageContexts
    /\ out = StartPage(page)

\* lines 190-277
UpdateAndRemoveTemplates ==
    /\ hook = "html-page-context"
    /\ pc = "pending"
    /\ \E render \in [TemplatesToRender(page) -> RenderOutputs] :
          LET fin == RunPage(page, "index", render) IN
          /\ out' = fin
          /\ io' = render
          /\ pc' = IF fin.err = "none" THEN "returned" ELSE "raised"
    /\ UNCHANGED <<hook, conf, app, page>>

NextPage == UpdateAndRemoveTemplates
SpecPage == InitPage /\ [][NextPage]_vars

(***************************************************************************)
(* Properties of update_config (checked under Spec).                       *)
(***************************************************************************)
Count(xs, x) == Cardinality({i \in 1..Len(xs) : xs[i] = x})
Elems(xs) == {xs[i] : i \in 1..Len(xs)}

ConfigDone == hook = "builder-inited" /\ pc # "pending"
Given(k) == Get(theme_options, k, None_)

\* C1: each deprecated option (logo_text, footer_items, favicons) that the
\* options set yields its new-shaped option (logo['text'], footer_start) and
\* exactly one deprecation warning for it.
C1_DeprecatedOptions ==
    ConfigDone =>
        /\ Truthy(Given("logo_text")) =>
              /\ Get(app.opts, "logo", None_).t = "dict"
              /\ "text" \in DOMAIN app.opts["logo"].v
              /\ app.opts["logo"].v["text"] = Given("logo_text")
              /\ Count(app.warnings, "logo_text") = 1
        /\ Truthy(Given("footer_items")) =>
              /\ Get(app.opts, "footer_start", None_) = Given("footer_items")
              /\ Count(app.warnings, "footer_items") = 1
        /\ Truthy(Given("favicons")) => Count(app.warnings, "favicons") = 1

\* the manifest read was made and ended with exception ReadFailure ("" if none)
ReadMade == ConfigDone /\ io.src # "none"
ReadFailure == ReadException(theme_options["switcher"].v["json_url"].v, io)
\* the steps after the manifest check ran to the end of update_config
RanToLogo == "icon_links" \in Elems(app.writes) /\ app.err \in {"none", "ValueError"}

\* C2: a manifest that cannot be reached or read, whatever the network or
\* file-read failure, gives one reachability warning, no exception, and
\* update_config goes on through analytics, icon-link shortcuts and logo.
C2_UnreachableManifest ==
    (ReadMade /\ ReadFailure # "") =>
        /\ Count(app.warnings, "switcher_unreadable") = 1
        /\ RanToLogo

RecordIsComplete(r) == "url" \in r /\ "version" \in r

\* C3: a manifest that was read and parsed gives no manifest warning when
\* every record has url and version, and exactly one malformed-manifest
\* warning when some record lacks one of them, however many records are
\* defective; update_config goes on without raising.
C3_ManifestValidation ==
    (ReadMade /\ ReadFailure = "" /\ io.content.json) =>
        LET records == io.content.records
            defective == {i \in 1..Len(records) : ~RecordIsComplete(records[i])}
        IN  /\ Count(app.warnings, "switcher_unreadable") = 0
            /\ Count(app.warnings, "switcher_malformed") = IF defective = {} THEN 0 ELSE 1
            /\ RanToLogo

C3_Witness ==
    /\ ReadMade /\ ReadFailure = "" /\ io.content.json
    /\ Len(io.content.records) = 2
    /\ \A i \in 1..2 : ~RecordIsComplete(io.content.records[i])
    /\ Count(app.warnings, "switcher_malformed") = 1
    /\ pc = "returned"

BadIconLinks == "icon_links" \in DOMAIN theme_options /\ theme_options["icon_links"].t # "list"

\* C4 as stated: a present, non-list icon_links makes update_config fail with
\* the configuration error naming the value's type, before any manifest
\* read, JS asset registration and write to icon_links or logo.
C4_Original ==
    (ConfigDone /\ BadIconLinks) =>
        /\ app.err = "ExtensionError"
        /\ app.errarg = theme_options["icon_links"].t
        /\ app.reads = <<>>
        /\ app.js_files = <<>>
        /\ "icon_links" \notin Elems(app.writes)
        /\ "logo" \notin Elems(app.writes)

\* the logo_text shim fails on these options (C1)
ShimFails ==
    /\ Truthy(Given("logo_text"))
    /\ "logo" \in DOMAIN theme_options
    /\ theme_options["logo"].t # "dict"

\* C4 amended: a present, non-list icon_links makes update_config fail
\* before any manifest read, JS asset registration and write to icon_links;
\* the failure is the configuration error naming the value's type unless the
\* logo_text shim has failed first, and logo is written before the failure
\* exactly when a non-empty logo_text was rewritten into it.
C4_IconLinksNotList ==
    (ConfigDone /\ BadIconLinks) =>
        /\ pc = "raised"
        /\ app.err = IF ShimFails THEN "TypeError" ELSE "ExtensionError"
        /\ app.err = "ExtensionError" => app.errarg = theme_options["icon_links"].t
        /\ app.reads = <<>>
        /\ app.js_files = <<>>
        /\ "icon_links" \notin Elems(app.writes)
        /\ "logo" \in Elems(app.writes) <=> (Truthy(Given("logo_text")) /\ ~ShimFails)

C4_Witness ==
    /\ ConfigDone /\ BadIconLinks
    /\ app.err = "ExtensionError" /\ app.errarg = "str"
    /\ ChecksSwitcher(theme_options)
    /\ MissingSwitcherKey(theme_options["switcher"].v) = ""
    /\ Truthy(Given("analytics"))
    /\ app.reads = <<>> /\ app.js_files = <<>>

LacksSwitcherKey ==
    /\ Given("switcher").t = "dict"
    /\ ~({"json_url", "version_match"} \subseteq DOMAIN theme_options["switcher"].v)

\* C5 as stated: a switcher dict lacking json_url or version_match makes
\* update_config fail, with no manifest read.
C5_Original ==
    (ConfigDone /\ LacksSwitcherKey) => (pc = "raised" /\ app.reads = <<>>)

\* C5 amended: a switcher dict lacking json_url or version_match gives no
\* manifest read; with check_switcher unset or true update_config fails,
\* and the failure raised by the switcher check is a KeyError naming the
\* missing sub-key (json_url before version_match); with check_switcher
\* false the switcher is not looked at and raises nothing.
C5_MissingSubKey ==
    (ConfigDone /\ LacksSwitcherKey) =>
        LET sw == theme_options["switcher"].v
            checked == Truthy(Get(theme_options, "check_switcher", Bool(TRUE)))
        IN  /\ app.reads = <<>>
            /\ checked => pc = "raised"
            /\ (checked /\ app.err \notin {"TypeError", "ExtensionError"}) =>
                  /\ app.err = "KeyError"
                  /\ app.errarg = IF "json_url" \notin DOMAIN sw THEN "json_url" ELSE "version_match"
            /\ ~checked => app.err # "KeyError"

C5_Witness ==
    /\ ConfigDone /\ LacksSwitcherKey
    /\ "json_url" \in DOMAIN theme_options["switcher"].v
    /\ app.err = "KeyError" /\ app.errarg = "version_match"
    /\ app.reads = <<>>

\* line 178 was reached
ShortcutsRan == ConfigDone /\ "icon_links" \in Elems(app.writes)

DisplayOrder ==
    << [opt |-> "github_url", name |-> "GitHub"], [opt |-> "gitlab_url", name |-> "GitLab"],
       [opt |-> "bitbucket_url", name |-> "Bitbucket"], [opt |-> "twitter_url", name |-> "Twitter"] >>
IsSetShortcut(d) == Truthy(Given(d.opt))

\* C9: icon_links starts with one fontawesome entry per shortcut set to a
\* non-empty value, in the order GitHub, GitLab, Bitbucket, Twitter, each
\* with the shortcut's URL, followed by the user's entries in their order.
C9_IconLinkShortcuts ==
    ShortcutsRan =>
        LET set == SelectSeq(DisplayOrder, IsSetShortcut)
            user == Get(theme_options, "icon_links", List(<<>>)).v
            links == app.opts["icon_links"].v
        IN  /\ Len(links) = Len(set) + Len(user)
            /\ \A i \in 1..Len(set) :
                  /\ links[i].type = "fontawesome"
                  /\ links[i].name = set[i].name
                  /\ links[i].url = theme_options[set[i].opt]
            /\ \A i \in 1..Len(user) : links[Len(set) + i] = user[i]

C9_Witness ==
    /\ ShortcutsRan /\ pc = "returned"
    /\ \A i \in 1..4 : IsSetShortcut(DisplayOrder[i])
    /\ Len(Get(theme_options, "icon_links", List(<<>>)).v) = 2
    /\ Len(app.opts["icon_links"].v) = 6

NavigationOk ==
    /\ "navigation_with_keys" \in DOMAIN app.opts
    /\ app.opts["navigation_with_keys"] =
          IF Given("navigation_with_keys").t = "none" THEN Bool(FALSE)
          ELSE Given("navigation_with_keys")

LogoMustRaise ==
    (ConfigDone /\ Truthy(Given("logo")) /\ Given("logo").t # "dict") => pc = "raised"

\* C10 as stated: on return logo is a dict, the empty dict when the user
\* supplied none or an empty value, icon_links is a list and
\* navigation_with_keys is False when unset and the user's value otherwise;
\* a non-empty logo that is not a dict makes update_config raise.
C10_Original ==
    /\ (hook = "builder-inited" /\ pc = "returned") =>
          /\ Get(app.opts, "logo", None_).t = "dict"
          /\ ~Truthy(Given("logo")) => app.opts["logo"].v = EmptyMap
          /\ Get(app.opts, "icon_links", None_).t = "list"
          /\ NavigationOk
    /\ LogoMustRaise

\* C10 amended: on return logo is a dict: the user's logo dict (the empty
\* dict when the user supplied none or an empty value), with `text` set to
\* logo_text when a non-empty logo_text was given; icon_links is a list and
\* navigation_with_keys is False when unset and the user's value otherwise;
\* a non-empty logo that is not a dict makes update_config raise.
C10_ReturnShape ==
    /\ (hook = "builder-inited" /\ pc = "returned") =>
          LET base == IF Truthy(Given("logo")) THEN Given("logo").v ELSE EmptyMap IN
          /\ Get(app.opts, "logo", None_).t = "dict"
          /\ app.opts["logo"].v =
                IF Truthy(Given("logo_text")) THEN Put(base, "text", Given("logo_text")) ELSE base
          /\ Get(app.opts, "icon_links", None_).t = "list"
          /\ NavigationOk
    /\ LogoMustRaise

C10_Witness ==
    /\ hook = "builder-inited" /\ pc = "returned"
    /\ Truthy(Given("logo_text")) /\ "logo" \notin DOMAIN theme_options
    /\ DOMAIN app.opts["logo"].v = {"text"}
    /\ Given("navigation_with_keys").t = "none"
    /\ app.opts["navigation_with_keys"] = Bool(FALSE)

(***************************************************************************)
(* Properties of update_and_remove_templates (checked under SpecPage).     *)
(***************************************************************************)
PageDone == hook = "html-page-context" /\ pc # "pending"

Commas(s) == {i \in 1..Len(s) : s[i] = ","}
\* where the n-th entry of a comma-separated text ends: the n-th comma, or
\* one past the end of the text for the last entry
Cut(s, n) ==
    IF n = 0 THEN 0
    ELSE IF n > Cardinality(Commas(s)) THEN Len(s) + 1
    ELSE CHOOSE i \in Commas(s) : Cardinality({j \in Commas(s) : j < i}) = n - 1
RawEntry(s, n) == SubSeq(s, Cut(s, n - 1) + 1, Cut(s, n) - 1)
Trimmed(p) ==
    LET ink == {i \in 1..Len(p) : ~IsSpace(p[i])} IN
    IF ink = {} THEN <<>>
    ELSE SubSeq(p, CHOOSE i \in ink : \A j \in ink : i <= j,
                   CHOOSE i \in ink : \A j \in ink : i >= j)
\* a dot in the last path component that has a character other than a dot
\* before it, in that component
HasExtension(t) ==
    \E d \in 1..Len(t) :
        /\ t[d] = "."
        /\ \A j \in (d + 1)..Len(t) : t[j] \notin {".", "/"}
        /\ \E j \in 1..(d - 1) : t[j] # "." /\ \A m \in j..d : t[m] # "/"
IsBlank(r) == \A i \in 1..Len(r) : IsSpace(r[i])
IsSkipListed(t) ==
    \E n \in 1..Len(t) : SubSeq(t, n, Len(t)) \in {<<"s", "i", "d", "e", "b", "a", "r", "-", "n", "a", "v", "-", "b", "s", ".", "h", "t", "m", "l">>, <<"n", "a", "v", "b", "a", "r", "-", "n", "a", "v", ".", "h", "t", "m", "l">>}
IsTextSection(k) == k \in DOMAIN page /\ page[k].t = "str" /\ Len(page[k].v) > 0

C7_PruneEmptyTemplates ==
    /\ \A k \in SectionKeys :
          (PageDone /\ Truthy(Get(page, k, None_))) =>
              LET Keeps(t) == IsSkipListed(t) \/ ~IsBlank(io[t]) IN
              out.context[k] = List(SelectSeq(out.normalized[k], Keeps))
    /\ PageDone => \A i \in 1..Len(out.rendered) : ~IsSkipListed(out.rendered[i])

C7_Witness ==
    \E k \in SectionKeys :
        /\ PageDone /\ Truthy(Get(page, k, None_))
        /\ \E t \in Elems(out.normalized[k]) :
              /\ ~IsSkipListed(t) /\ io[t] # <<>> /\ IsBlank(io[t])
              /\ t \notin Elems(out.context[k].v)
        /\ \E t \in Elems(out.context[k].v) : IsSkipListed(t)
        /\ \E t \in Elems(out.context[k].v) : ~IsSkipListed(t) /\ ~IsBlank(io[t])

NotThemeCss(x) == x # theme_css_name
HasCssFiles == PageDone /\ "css_files" \in DOMAIN page

\* C8 as stated: css_files ends up without any entry equal to the theme
\* CSS, however many there were, the other entries keeping their order.
C8_Original ==
    HasCssFiles =>
        /\ theme_css_name \notin Elems(out.context["css_files"].v)
        /\ SelectSeq(out.context["css_files"].v, NotThemeCss)
              = SelectSeq(page["css_files"].v, NotThemeCss)

\* C8 amended: css_files ends up without the first entry equal to the
\* theme CSS, and otherwise unchanged: a list holding that entry n times
\* holds it n - 1 times afterwards, and every other entry keeps its place
\* in the order.
C8_RemoveThemeCss ==
    HasCssFiles =>
        LET before == page["css_files"].v
            after == out.context["css_files"].v
            hits == {i \in 1..Len(before) : before[i] = theme_css_name}
        IN  IF hits = {} THEN after = before
            ELSE LET first == CHOOSE i \in hits : \A j \in hits : i <= j IN
                 /\ Len(after) = Len(before) - 1
                 /\ \A j \in 1..Len(after) : after[j] = IF j < first THEN before[j] ELSE before[j + 1]
                 /\ Count(after, theme_css_name) = Cardinality(hits) - 1

C8_Witness ==
    /\ HasCssFiles
    /\ page["css_files"].v = <<theme_css_name, "_static/custom.css", theme_css_name>>
    /\ out.context["css_files"].v = <<"_static/custom.css", theme_css_name>>

====
